---- MODULE Spec2Model ----
(***************************************************************************)
(* A model of lull::EntityFactory (lullaby/modules/ecs/entity_factory.cc). *)
(*                                                                         *)
(* The factory's members are the variables that end with an underscore,    *)
(* as in the source.  One owner thread drives construction, destruction    *)
(* and the drain of the pending-destruction queue; a worker thread calls   *)
(* the two operations that take the factory mutex, Create() and            *)
(* QueueForDestruction().  System destroy hooks run on the owner thread    *)
(* and may call back into Create() and QueueForDestruction().              *)
(***************************************************************************)
EXTENDS Integers, Sequences, FiniteSets, TLC

\* ------------------------------------------------------------------ bounds

\* Width of the Entity counter in bits.
EntityBits == 3
\* Callers pass entity ids in 0..MaxArg.
MaxArg == 2
\* Entries enqueued and not yet destroyed, at most.
MaxQueue == 2
\* Converters registered, at most.
MaxConverters == 3
\* Entities created by name, at most.
MaxNamed == 2

\* ------------------------------------------------------------ the program

kNullEntity == 0

EntityModulus == 2 ^ EntityBits
Entities == 0 .. (EntityModulus - 1)
\* The entity ids callers pass in.
EntityArgs == 0 .. MaxArg

Owner == "owner"
Worker == "worker"
Threads == {Owner, Worker}
Free == "free"

\* System-type ids and the System instances registered under them.
SystemTypes == {"T1", "T2"}
NullSystem == "nullptr"
SystemPtrs == {NullSystem, "sysA", "sysB"}

\* Component-type hashes (Blueprint::GetLegacyDefType).
DefTypes == {"d1", "d2"}

\* A Blueprint or BlueprintTree pointer: null, or the components in source order
\* and the child trees in source order.
NullBlueprint == [null |-> TRUE, comps |-> <<>>, children |-> <<>>]
Blueprint(comps, children) == [null |-> FALSE, comps |-> comps, children |-> children]
EmptyBlueprint == Blueprint(<<>>, <<>>)

\* An absent Optional<BlueprintTree>, and the tree a converter's load() returned:
\* converter is the position in converters_ of the converter that decoded it.
NullOpt == [present |-> FALSE, converter |-> 0, blueprint |-> NullBlueprint]
Loaded(converter, blueprint) ==
  [present |-> TRUE, converter |-> converter, blueprint |-> blueprint]

Leaf(comps) == Blueprint(comps, <<>>)
\* A parent with two components and two children.
Family == Blueprint(<<"d1", "d2">>, <<Leaf(<<"d1">>), Leaf(<<"d2">>)>>)
\* A parent whose first child has a child of its own.
Nested ==
  Blueprint(<<"d1">>,
            <<Blueprint(<<"d2">>, <<Leaf(<<"d1">>)>>), Leaf(<<"d2", "d1">>)>>)
\* The trees the owner constructs entities from.
BuildTrees == {NullBlueprint, Leaf(<<"d1">>), Family, Nested}

\* File identifiers of converters and of byte buffers.
Identifiers == {"AAAA", "BBBB", "CCCC"}
\* The identifiers CreateFlatbufferConverter is given: any string_view, the
\* empty one included.
ConverterIdentifiers == Identifiers \cup {""}
\* const void* data: null, or a buffer that embeds a file identifier.
NullData == [null |-> TRUE, identifier |-> ""]
Buffer(identifier) == [null |-> FALSE, identifier |-> identifier]
DataBuffers == {NullData} \cup {Buffer(identifier) : identifier \in Identifiers}

\* Blueprint names, and what GetBlueprintAsset makes of them: the name itself
\* when it ends with ".json", and the name with ".bin" appended otherwise.
Names == {"box", "scene.json"}
EndsWithJson(name) == name \in {"scene.json"}
WithBin(name) ==
  CASE name = "box" -> "box.bin"
    [] name = "scene.json" -> "scene.json.bin"
FilenameOf(name) == IF EndsWithJson(name) THEN name ELSE WithBin(name)
Filenames == {FilenameOf(name) : name \in Names}
\* Hash(filename): the filenames of the model have different hashes.
Hash(filename) ==
  CASE filename = "box.bin" -> "h1"
    [] filename = "scene.json" -> "h2"

\* std::shared_ptr<SimpleAsset>: nullptr, an asset of size 0, an asset with bytes.
NullAsset == [null |-> TRUE, empty |-> TRUE, data |-> NullData]
ZeroLengthAsset == [null |-> FALSE, empty |-> TRUE, data |-> NullData]
FileAsset(data) == [null |-> FALSE, empty |-> FALSE, data |-> data]
\* What LoadNow<SimpleAsset>(filename) can return.
LoadedAssets == {ZeroLengthAsset, FileAsset(Buffer("AAAA")), FileAsset(Buffer("BBBB"))}

\* Span<uint8_t>: empty, or the bytes a converter's finalize function encoded.
EmptySpan == [empty |-> TRUE, converter |-> 0]

\* No construction or decoding call was made since the last registration.
NoInput == [op |-> "none"]

VARIABLES
  entity_generator_,         \* the id counter
  aborted,                   \* a CHECK failed: the process is gone
  mutex_,                    \* Free, or the thread holding the mutex
  entity_to_blueprint_map_,  \* function: live entity -> blueprint name
  pending_destroy_,          \* the member queue
  systems_,                  \* the SystemMap, as the sequence its iteration yields
  type_map_,                 \* function: component-type hash -> system-type id
  converters_,               \* the registered FlatbufferConverters, in registration order
  blueprints_,               \* the asset cache, function: key -> asset
  pc,                        \* each thread's position
  caller,                    \* where a thread returns to from Create/QueueForDestruction
  arg,                       \* the entity each thread passed to QueueForDestruction
  loaded,                    \* the counter value each thread read for its increment
  pending_destroy,           \* DestroyQueuedEntities' local queue
  destroy_entity,            \* Destroy's parameter
  destroy_ret,               \* where Destroy returns to
  hook_idx,                  \* Destroy's position in systems_
  \* history, read by the properties only
  create_log,                \* ids returned by Create(), in the order of the returns
  owed,                      \* entries enqueued and not yet destroyed by a drain
  epoch,                     \* parity of the number of queue swaps so far
  destroy_calls,             \* the hooks the current Destroy has called
  destroy_was_live,          \* whether Destroy's entity was in the map at the call
  reg_order,                 \* per type id, the first AddSystem call with a System: in call order
  last_def,                  \* function: component-type hash -> type id of its last RegisterDef
  loader_calls,              \* function: filename -> number of LoadNow calls for it
  drain_owes,                \* entries the running drain's swap took, less its Destroy calls so far
  \* the owner's last construction or decoding call
  input,                     \* the call and its arguments
  calls,                     \* the System calls it made, in order
  diag,                      \* the diagnostics it logged: <<severity, source line>>
  result,                    \* the entity it returned
  decoded,                   \* the Optional<BlueprintTree> it returned
  asset,                     \* the asset its GetBlueprintAsset returned
  served,                    \* where that asset came from: "cache", "loader" or "none"
  finalized                  \* the Span<uint8_t> it returned

factory == <<entity_generator_, aborted, mutex_, entity_to_blueprint_map_,
             pending_destroy_, systems_, type_map_, converters_, blueprints_>>
control == <<pc, caller, arg, loaded, pending_destroy, destroy_entity, destroy_ret, hook_idx>>
history == <<create_log, owed, epoch, destroy_calls, destroy_was_live, reg_order,
             last_def, loader_calls, drain_owes>>
outputs == <<input, calls, diag, result, decoded, asset, served, finalized>>
vars == <<factory, control, history, outputs>>

\* ---------------------------------------------------------------- helpers

Range(s) == {s[i] : i \in 1 .. Len(s)}

\* Mutant: an erase that leaves the entry.
EraseNothing(m, k) == m

\* Mutant: clear() in the place of erase(key).
EraseAll(m, k) == <<>>

\* entity_to_blueprint_map_.erase(entity)
Erase(m, k) == [x \in (DOMAIN m) \ {k} |-> m[x]]

\* map[key] = value
Put(m, k, v) == [x \in (DOMAIN m) \cup {k} |-> IF x = k THEN v ELSE m[x]]

\* a sequence with x inserted so that it becomes element number i
InsertAt(s, i, x) == SubSeq(s, 1, i - 1) \o <<x>> \o SubSeq(s, i, Len(s))

\* ++entity_generator_ on an unsigned integer of EntityBits bits
NextEntity(g) == (g + 1) % EntityModulus

\* systems_.find(system_type): the position in the map, 0 for end()
FindSystem(system_type) ==
  IF \E i \in 1 .. Len(systems_) : systems_[i].type = system_type
  THEN CHOOSE i \in 1 .. Len(systems_) : systems_[i].type = system_type
  ELSE 0

\* ----------------------------------------------- construction (owner thread)
\* The construction calls are functions of the part of the factory they touch:
\* st = [gen, map, aborted, calls, diag].  A call made after a failed CHECK does
\* nothing: the process is gone.

Log(st, severity, line) == [st EXCEPT !.diag = @ \cup {<<severity, line>>}]

\* GetSystem(def_type): the System registered for the component type, or null
GetSystem(def_type) ==
  IF def_type \notin DOMAIN type_map_
  THEN NullSystem
  ELSE IF FindSystem(type_map_[def_type]) = 0
       THEN NullSystem
       ELSE systems_[FindSystem(type_map_[def_type])].system

\* Create(): lock, ++entity_generator_, CHECK_NE(entity, kNullEntity), return
\* Mutant: Create() without its CHECK_NE.
CreateUnchecked(st) ==
  IF st.aborted
  THEN [st |-> st, ret |-> kNullEntity]
  ELSE LET entity == NextEntity(st.gen)
       IN  [st |-> [st EXCEPT !.gen = entity], ret |-> entity]

Create(st) ==
  IF st.aborted
  THEN [st |-> st, ret |-> kNullEntity]
  ELSE LET entity == NextEntity(st.gen)
       IN  [st |-> [st EXCEPT !.gen = entity, !.aborted = (entity = kNullEntity)],
            ret |-> entity]

\* The call recorded by an instrumented System.
SystemCall(op, system, entity, def_type) ==
  [op |-> op, system |-> system, entity |-> entity, def |-> def_type]

\* Mutant: a first pass that gives up at the first component without a System.
RECURSIVE CreateComponentsUntilUnresolved(_, _, _)
CreateComponentsUntilUnresolved(st, entity, comps) ==
  IF comps = <<>> \/ st.aborted
  THEN st
  ELSE LET system == GetSystem(Head(comps))
       IN  IF system = NullSystem
           THEN Log(st, "DFATAL", 206)
           ELSE CreateComponentsUntilUnresolved(
                  [st EXCEPT !.calls =
                     Append(@, SystemCall("CreateComponent", system, entity, Head(comps)))],
                  entity, Tail(comps))

\* The first ForEachComponent of CreateImpl.  The diagnostic reads
\* entity_to_blueprint_map_[entity], which inserts "" when the entity has no entry.
RECURSIVE CreateComponents(_, _, _)
CreateComponents(st, entity, comps) ==
  IF comps = <<>> \/ st.aborted
  THEN st
  ELSE LET system == GetSystem(Head(comps))
           here ==
             IF system # NullSystem
             THEN [st EXCEPT !.calls =
                     Append(@, SystemCall("CreateComponent", system, entity, Head(comps)))]
             ELSE [Log(st, "DFATAL", 206) EXCEPT !.map =
                     IF entity \in DOMAIN @ THEN @ ELSE Put(@, entity, "")]
       IN  CreateComponents(here, entity, Tail(comps))

\* Mutant: a second pass that goes through the components last to first.
RECURSIVE PostCreateComponentsLastFirst(_, _, _)
PostCreateComponentsLastFirst(st, entity, comps) ==
  IF comps = <<>> \/ st.aborted
  THEN st
  ELSE LET last == comps[Len(comps)]
           system == GetSystem(last)
           here ==
             IF system # NullSystem
             THEN [st EXCEPT !.calls =
                     Append(@, SystemCall("PostCreateComponent", system, entity, last))]
             ELSE st
       IN  PostCreateComponentsLastFirst(here, entity, SubSeq(comps, 1, Len(comps) - 1))

\* The second ForEachComponent of CreateImpl.
RECURSIVE PostCreateComponents(_, _, _)
PostCreateComponents(st, entity, comps) ==
  IF comps = <<>> \/ st.aborted
  THEN st
  ELSE LET system == GetSystem(Head(comps))
           here ==
             IF system # NullSystem
             THEN [st EXCEPT !.calls =
                     Append(@, SystemCall("PostCreateComponent", system, entity, Head(comps)))]
             ELSE st
       IN  PostCreateComponents(here, entity, Tail(comps))

RECURSIVE CreateImpl(_, _, _, _)
RECURSIVE CreateChildren(_, _, _)
RECURSIVE Create_Entity_BlueprintTree(_, _, _)

\* Create(BlueprintTree*)
Create_BlueprintTree(st, blueprint) ==
  LET made == Create(st)
  IN  IF made.st.aborted
      THEN made
      ELSE Create_Entity_BlueprintTree(made.st, made.ret, blueprint)

\* create_child_fn_(parent, child): a fresh id for the child, then the same protocol
create_child_fn_(st, parent, child_blueprint) ==
  Create_BlueprintTree(st, child_blueprint).st

\* for (auto& child_blueprint : *children) create_child_fn_(entity, &child_blueprint)
CreateChildren(st, entity, children) ==
  IF children = <<>> \/ st.aborted
  THEN st
  ELSE CreateChildren(create_child_fn_(st, entity, Head(children)), entity, Tail(children))

\* Mutant: the parent's post-creation calls made before its children are built.
PostCreateBeforeChildren(st, entity, blueprint, has_children) ==
  LET created == CreateComponents(st, entity, blueprint.comps)
      posted == PostCreateComponents(created, entity, blueprint.comps)
  IN  IF has_children
      THEN CreateChildren(posted, entity, blueprint.children)
      ELSE posted

\* The phases of CreateImpl after its two checks, in the order the code runs them.
ConstructionOrder(st, entity, blueprint, has_children) ==
  LET created == CreateComponents(st, entity, blueprint.comps)
      withChildren ==
        IF has_children
        THEN CreateChildren(created, entity, blueprint.children)
        ELSE created
  IN  PostCreateComponents(withChildren, entity, blueprint.comps)

\* CreateImpl(Entity, Blueprint*, std::list<BlueprintTree>* children);
\* has_children: children is not null
CreateImpl(st, entity, blueprint, has_children) ==
  IF st.aborted
  THEN [st |-> st, ret |-> FALSE]
  ELSE IF entity = kNullEntity
  THEN [st |-> Log(st, "DFATAL", 193), ret |-> FALSE]
  ELSE IF blueprint.null
  THEN [st |-> Log(st, "DFATAL", 197), ret |-> FALSE]
  ELSE [st |-> ConstructionOrder(st, entity, blueprint, has_children), ret |-> TRUE]

\* CreateImpl(Entity, BlueprintTree*) when blueprint->Children() of a null tree
\* only computes the member's address: CreateImpl then rejects the null tree.
\* The other outcome of that undefined call is NullTreeFault.
CreateImpl_Tree(st, entity, blueprint) ==
  CreateImpl(st, entity, blueprint, TRUE)

\* Create(Entity, BlueprintTree*)
Create_Entity_BlueprintTree(st, entity, blueprint) ==
  LET named == [st EXCEPT !.map = Put(@, entity, "")]
      made == CreateImpl_Tree(named, entity, blueprint)
  IN  IF st.aborted
      THEN [st |-> st, ret |-> kNullEntity]
      ELSE [st |-> made.st, ret |-> IF made.ret THEN entity ELSE kNullEntity]

\* blueprint->Children() of a null tree is undefined (line 187, reached after
\* line 130 wrote the name-map entry): the build that does not go on to
\* CreateImpl's checks faults, and the process is gone.
NullTreeFault(st, entity) ==
  [st |-> [st EXCEPT !.map = Put(@, entity, ""), !.aborted = TRUE], ret |-> kNullEntity]

\* The outcomes of Create(Entity, BlueprintTree*) a build can produce.
Create_Entity_BlueprintTree_Outcomes(st, entity, blueprint) ==
  {Create_Entity_BlueprintTree(st, entity, blueprint)}
    \cup (IF blueprint.null THEN {NullTreeFault(st, entity)} ELSE {})

\* The outcomes of Create(BlueprintTree*) a build can produce.
Create_BlueprintTree_Outcomes(st, blueprint) ==
  LET made == Create(st)
  IN  IF made.st.aborted
      THEN {made}
      ELSE Create_Entity_BlueprintTree_Outcomes(made.st, made.ret, blueprint)

\* Create(Blueprint*)
Create_Blueprint(st, blueprint) ==
  LET fresh == Create(st)
      made == CreateImpl(fresh.st, fresh.ret, blueprint, FALSE)
  IN  IF fresh.st.aborted
      THEN fresh
      ELSE IF ~made.ret
      THEN [st |-> made.st, ret |-> kNullEntity]
      ELSE [st |-> [made.st EXCEPT !.map = Put(@, fresh.ret, "")], ret |-> fresh.ret]

\* The bytes Blueprint::Finalize returns with a converter's finalize function.
Encoded(converter, encodes) == [empty |-> ~encodes, converter |-> converter]

\* The tree a converter's load function returns, when it returns one.
DecodedTree == Leaf(<<"d1", "d2">>)

\* Mutant: GetFlatbufferConverter without the single-converter shortcut.
GetFlatbufferConverterByScan(st, identifier) ==
  LET matches == {i \in DOMAIN converters_ : converters_[i].identifier = identifier}
      converter == IF matches = {} THEN 0
                   ELSE CHOOSE i \in matches : \A j \in matches : i <= j
  IN  [st |-> IF converter = 0 THEN Log(st, "DFATAL", 361) ELSE st, ret |-> converter]

\* GetFlatbufferConverter(identifier): the position of the converter in
\* converters_, 0 for nullptr.
GetFlatbufferConverter(st, identifier) ==
  LET matches == {i \in DOMAIN converters_ : converters_[i].identifier = identifier}
      converter == IF Len(converters_) = 1 THEN 1
                   ELSE IF matches = {} THEN 0
                   ELSE CHOOSE i \in matches : \A j \in matches : i <= j
  IN  [st |-> IF converter = 0 THEN Log(st, "DFATAL", 361) ELSE st, ret |-> converter]

\* CreateBlueprintFromData(name, data, size).  loads: the converter's load
\* function, which the caller supplied, returns a tree for this buffer.
CreateBlueprintFromData(st, data, loads) ==
  IF data.null
  THEN [st |-> Log(st, "DFATAL", 269), ret |-> NullOpt]
  ELSE LET found == GetFlatbufferConverter(st, data.identifier)
       IN  IF found.ret = 0
           THEN [st |-> IF converters_ = <<>> THEN Log(found.st, "ERROR", 280)
                                              ELSE Log(found.st, "DFATAL", 286),
                 ret |-> NullOpt]
           ELSE [st |-> found.st,
                 ret |-> [present |-> loads, converter |-> found.ret,
                          blueprint |-> IF loads THEN DecodedTree ELSE NullBlueprint]]

\* Mutant: an asset cache that keeps no asset of size 0.
ResourceCreateUnlessEmpty(st, key, filename, loaded_asset) ==
  IF key \in DOMAIN st.cache
  THEN [st |-> st, ret |-> st.cache[key]]
  ELSE [st |-> [st EXCEPT !.cache = IF loaded_asset.empty THEN @
                                    ELSE Put(@, key, loaded_asset),
                          !.loader = [@ EXCEPT ![filename] = @ + 1]],
        ret |-> loaded_asset]

\* blueprints_.Create(key, [&]() { return asset_loader->LoadNow<SimpleAsset>(filename); }):
\* the cached object of the key, or else the object the function returns, which
\* is cached under the key.  loaded_asset: what LoadNow returns when it is called.
ResourceCreate(st, key, filename, loaded_asset) ==
  IF key \in DOMAIN st.cache
  THEN [st |-> st, ret |-> st.cache[key]]
  ELSE [st |-> [st EXCEPT !.cache = Put(@, key, loaded_asset),
                          !.loader = [@ EXCEPT ![filename] = @ + 1]],
        ret |-> loaded_asset]

\* Mutant: GetBlueprintAsset that asks the loader at every call.
GetBlueprintAssetUncached(st, name, loaded_asset) ==
  LET filename == FilenameOf(name)
      key == Hash(filename)
      got == [st |-> [st EXCEPT !.cache = Put(@, key, loaded_asset),
                                !.loader = [@ EXCEPT ![filename] = @ + 1]],
              ret |-> loaded_asset]
  IN  IF got.ret.empty
      THEN [st |-> Log(got.st, "ERROR", 245), ret |-> NullAsset]
      ELSE got

\* Mutant: GetBlueprintAsset that takes an asset of size 0 out of the cache.
GetBlueprintAssetEvictingEmpty(st, name, loaded_asset) ==
  LET filename == FilenameOf(name)
      key == Hash(filename)
      got == ResourceCreate(st, key, filename, loaded_asset)
  IN  IF got.ret.empty
      THEN [st |-> [Log(got.st, "ERROR", 245) EXCEPT !.cache = st.cache],
            ret |-> NullAsset]
      ELSE got

\* GetBlueprintAsset(name)
GetBlueprintAsset(st, name, loaded_asset) ==
  LET filename == FilenameOf(name)
      key == Hash(filename)
      got == ResourceCreate(st, key, filename, loaded_asset)
  IN  IF got.ret.empty
      THEN [st |-> Log(got.st, "ERROR", 245), ret |-> NullAsset]
      ELSE got

\* Mutant: CreateImpl from data that does not record the name.
CreateImpl_DataUnnamed(st, entity, name, data, loads) ==
  IF entity = kNullEntity
  THEN [st |-> Log(st, "DFATAL", 168), ret |-> FALSE]
  ELSE IF data.null
  THEN [st |-> Log(st, "DFATAL", 172), ret |-> FALSE]
  ELSE LET blueprint == CreateBlueprintFromData(st, data, loads)
       IN  IF ~blueprint.ret.present
           THEN [st |-> blueprint.st, ret |-> FALSE]
           ELSE CreateImpl_Tree(blueprint.st, entity, blueprint.ret.blueprint)

\* CreateImpl(Entity, const std::string& name, const void* data, size_t len)
CreateImpl_Data(st, entity, name, data, loads) ==
  IF entity = kNullEntity
  THEN [st |-> Log(st, "DFATAL", 168), ret |-> FALSE]
  ELSE IF data.null
  THEN [st |-> Log(st, "DFATAL", 172), ret |-> FALSE]
  ELSE LET blueprint == CreateBlueprintFromData(st, data, loads)
       IN  IF ~blueprint.ret.present
           THEN [st |-> blueprint.st, ret |-> FALSE]
           ELSE CreateImpl_Tree([blueprint.st EXCEPT !.map = Put(@, entity, name)],
                                entity, blueprint.ret.blueprint)

\* CreateFromBlueprint(const void* blueprint, size_t len, const std::string& name)
\* Mutant: CreateFromBlueprint takes its id after the data has been decoded.
CreateFromBlueprintDecodingFirst(st, data, name, loads) ==
  LET fresh == Create(st)
      made == CreateImpl_Data(fresh.st, fresh.ret, name, data, loads)
  IN  IF fresh.st.aborted
      THEN fresh
      ELSE IF made.ret
      THEN [st |-> made.st, ret |-> fresh.ret]
      ELSE [st |-> [made.st EXCEPT !.gen = st.gen], ret |-> kNullEntity]

CreateFromBlueprint(st, data, name, loads) ==
  LET fresh == Create(st)
      made == CreateImpl_Data(fresh.st, fresh.ret, name, data, loads)
  IN  IF fresh.st.aborted
      THEN fresh
      ELSE [st |-> made.st, ret |-> IF made.ret THEN fresh.ret ELSE kNullEntity]

\* Mutant: Create(name) without the check of the asset.
Create_NameUnchecked(st, name, loaded_asset, loads) ==
  LET got == GetBlueprintAsset(st, name, loaded_asset)
      made == CreateFromBlueprint(got.st, got.ret.data, name, loads)
  IN  [st |-> made.st, ret |-> made.ret, asset |-> got.ret]

\* Create(const std::string& name)
Create_Name(st, name, loaded_asset, loads) ==
  LET got == GetBlueprintAsset(st, name, loaded_asset)
      made == CreateFromBlueprint(got.st, got.ret.data, name, loads)
  IN  IF got.ret.null
      THEN [st |-> Log(got.st, "ERROR", 93), ret |-> kNullEntity, asset |-> got.ret]
      ELSE [st |-> made.st, ret |-> made.ret, asset |-> got.ret]

\* Create(Entity entity, const std::string& name)
Create_Entity_Name(st, entity, name, loaded_asset, loads) ==
  LET got == GetBlueprintAsset(st, name, loaded_asset)
      made == CreateImpl_Data(got.st, entity, name, got.ret.data, loads)
  IN  IF got.ret.null
      THEN [st |-> Log(got.st, "ERROR", 117), ret |-> kNullEntity, asset |-> got.ret]
      ELSE IF ~made.ret
      THEN [st |-> Log(made.st, "ERROR", 122), ret |-> kNullEntity, asset |-> got.ret]
      ELSE [st |-> made.st, ret |-> entity, asset |-> got.ret]

\* CreateBlueprintFromAsset(name, asset)
CreateBlueprintFromAsset(st, the_asset, loads) ==
  IF the_asset.null
  THEN [st |-> Log(st, "ERROR", 260), ret |-> NullOpt]
  ELSE CreateBlueprintFromData(st, the_asset.data, loads)

\* CreateBlueprint(name)
CreateBlueprint(st, name, loaded_asset, loads) ==
  LET got == GetBlueprintAsset(st, name, loaded_asset)
      made == CreateBlueprintFromAsset(got.st, got.ret, loads)
  IN  [st |-> made.st, ret |-> made.ret, asset |-> got.ret]

\* Finalize(blueprint).  encodes: blueprint->Finalize returns bytes.
Finalize(st, encodes) ==
  LET found == GetFlatbufferConverter(st, "")
  IN  IF found.ret # 0
      THEN [st |-> found.st, ret |-> Encoded(found.ret, encodes)]
      ELSE [st |-> Log(found.st, "DFATAL", 146), ret |-> EmptySpan]

\* The part of the factory a construction call works on, and its write-back.
Factory ==
  [gen |-> entity_generator_, map |-> entity_to_blueprint_map_, aborted |-> aborted,
   cache |-> blueprints_, loader |-> loader_calls, calls |-> <<>>, diag |-> {}]

Commit(out) ==
  /\ entity_generator_' = out.st.gen
  /\ entity_to_blueprint_map_' = out.st.map
  /\ aborted' = out.st.aborted
  /\ calls' = out.st.calls
  /\ diag' = out.st.diag
  /\ result' = out.ret
  /\ decoded' = NullOpt
  /\ asset' = NullAsset
  /\ served' = "none"
  /\ finalized' = EmptySpan

\* The write-back of a call that went through GetBlueprintAsset.
CommitNamed(out) ==
  /\ entity_generator_' = out.st.gen
  /\ entity_to_blueprint_map_' = out.st.map
  /\ aborted' = out.st.aborted
  /\ blueprints_' = out.st.cache
  /\ loader_calls' = out.st.loader
  /\ calls' = out.st.calls
  /\ diag' = out.st.diag
  /\ asset' = out.asset
  /\ served' = IF out.st.loader = loader_calls THEN "cache" ELSE "loader"
  /\ finalized' = EmptySpan

\* A registration call: what the last construction call gave is history.
ClearOutputs ==
  /\ input' = NoInput
  /\ calls' = <<>>
  /\ diag' = {}
  /\ result' = kNullEntity
  /\ decoded' = NullOpt
  /\ asset' = NullAsset
  /\ served' = "none"
  /\ finalized' = EmptySpan

\* --------------------------------------------------------------- Init

Init ==
  /\ entity_generator_ = 0
  /\ aborted = FALSE
  /\ mutex_ = Free
  /\ entity_to_blueprint_map_ = <<>>
  /\ pending_destroy_ = <<>>
  /\ systems_ = <<>>
  /\ type_map_ = <<>>
  /\ pc = [t \in Threads |-> "idle"]
  /\ caller = [t \in Threads |-> "idle"]
  /\ arg = [t \in Threads |-> kNullEntity]
  /\ loaded = [t \in Threads |-> 0]
  /\ pending_destroy = <<>>
  /\ destroy_entity = kNullEntity
  /\ destroy_ret = "idle"
  /\ hook_idx = 0
  /\ create_log = <<>>
  /\ owed = <<>>
  /\ epoch = 0
  /\ destroy_calls = <<>>
  /\ destroy_was_live = FALSE
  /\ reg_order = <<>>
  /\ last_def = <<>>
  /\ drain_owes = 0
  /\ converters_ = <<>>
  /\ input = NoInput
  /\ calls = <<>>
  /\ diag = {}
  /\ result = kNullEntity
  /\ decoded = NullOpt
  /\ blueprints_ = <<>>
  /\ loader_calls = [filename \in Filenames |-> 0]
  /\ asset = NullAsset
  /\ served = "none"
  /\ finalized = EmptySpan

\* ------------------------------------------------------------ registration

\* Mutant: AddSystem that replaces the System already registered for the type.
EmplacedOverwriting(system_type, system) ==
  IF system = NullSystem
  THEN {systems_}
  ELSE IF FindSystem(system_type) # 0
  THEN {[systems_ EXCEPT ![FindSystem(system_type)].system = system]}
  ELSE {InsertAt(systems_, i, [type |-> system_type, system |-> system]) :
          i \in 1 .. (Len(systems_) + 1)}

\* What systems_ can be after AddSystem(system_type, system).  systems_ is an
\* associative container keyed by the type id (find, emplace, iter.second):
\* where a new entry comes in its iteration is the container's business (key or
\* bucket order), so the model lets it be any position.
Emplaced(system_type, system) ==
  IF system = NullSystem \/ FindSystem(system_type) # 0
  THEN {systems_}
  ELSE {InsertAt(systems_, i, [type |-> system_type, system |-> system]) :
          i \in 1 .. (Len(systems_) + 1)}

\* The system-type ids that had an AddSystem call with a System, in call order.
RegisteredTypes == [i \in 1 .. Len(reg_order) |-> reg_order[i].type]

\* AddSystem(system_type, system)
AddSystem(system_type, system) ==
  /\ ~aborted
  /\ pc[Owner] = "idle"
  /\ systems_' \in Emplaced(system_type, system)
  /\ reg_order' = IF system = NullSystem \/ system_type \in Range(RegisteredTypes)
                  THEN reg_order
                  ELSE Append(reg_order, [type |-> system_type, system |-> system])
  /\ ClearOutputs
  /\ UNCHANGED <<loader_calls, entity_generator_, aborted, mutex_, entity_to_blueprint_map_,
                 pending_destroy_, type_map_, converters_, blueprints_, control,
                 create_log, owed, epoch, destroy_calls, destroy_was_live, last_def, drain_owes>>

\* Mutant: RegisterDef that keeps the association a hash already has.
AssociatedOnce(system_type, def_type) ==
  IF def_type \in DOMAIN type_map_ THEN type_map_ ELSE Put(type_map_, def_type, system_type)

\* type_map_[def_type] = system_type
Associated(system_type, def_type) == Put(type_map_, def_type, system_type)

\* RegisterDef(system_type, def_type)
RegisterDef(system_type, def_type) ==
  /\ ~aborted
  /\ pc[Owner] = "idle"
  /\ type_map_' = Associated(system_type, def_type)
  /\ last_def' = [d \in (DOMAIN last_def) \cup {def_type} |->
                    IF d = def_type THEN system_type ELSE last_def[d]]
  /\ ClearOutputs
  /\ UNCHANGED <<loader_calls, entity_generator_, aborted, mutex_, entity_to_blueprint_map_,
                 pending_destroy_, systems_, converters_, blueprints_, control,
                 create_log, owed, epoch, destroy_calls, destroy_was_live, reg_order,
                 drain_owes>>

\* CreateFlatbufferConverter(identifier): converters_.emplace_back(...)
CreateFlatbufferConverter(identifier) ==
  /\ ~aborted
  /\ pc[Owner] = "idle"
  /\ Len(converters_) < MaxConverters
  /\ converters_' = Append(converters_, [identifier |-> identifier])
  /\ ClearOutputs
  /\ UNCHANGED <<entity_generator_, aborted, mutex_, entity_to_blueprint_map_,
                 pending_destroy_, systems_, type_map_, blueprints_, control, history>>

\* The owner calls CreateBlueprintFromData(name, data, size).
DecodeData(data, loads) ==
  /\ ~aborted
  /\ pc[Owner] = "idle"
  /\ LET out == CreateBlueprintFromData(Factory, data, loads)
     IN  /\ diag' = out.st.diag
         /\ decoded' = out.ret
  /\ input' = [op |-> "CreateBlueprintFromData", data |-> data]
  /\ calls' = <<>>
  /\ result' = kNullEntity
  /\ asset' = NullAsset
  /\ served' = "none"
  /\ finalized' = EmptySpan
  /\ UNCHANGED <<factory, control, history>>

\* The owner calls Finalize(blueprint) with a blueprint that is not null.
FinalizeCall(encodes) ==
  /\ ~aborted
  /\ pc[Owner] = "idle"
  /\ LET out == Finalize(Factory, encodes)
     IN  /\ diag' = out.st.diag
         /\ finalized' = out.ret
  /\ input' = [op |-> "Finalize"]
  /\ calls' = <<>>
  /\ result' = kNullEntity
  /\ decoded' = NullOpt
  /\ asset' = NullAsset
  /\ served' = "none"
  /\ UNCHANGED <<factory, control, history>>

\* ------------------------------------------------- Create(), on any thread

\* A thread may call into the factory when it is idle; the owner also from
\* inside a System's destroy hook.
CanCall(t) == pc[t] = "idle" \/ (t = Owner /\ pc[t] = "in_hook")

\* Mutant: a lock that never waits.
LockWithoutWaiting(t) == mutex_' = t

\* Lock lock(mutex_): the thread goes on when the mutex is free, and holds it
Lock(t) ==
  /\ mutex_ = Free
  /\ mutex_' = t

\* the end of the lock's scope
Unlock(t) == mutex_' = Free

\* Create(): Lock lock(mutex_)
CreateLock(t) ==
  /\ ~aborted
  /\ CanCall(t)
  /\ Lock(t)
  /\ caller' = [caller EXCEPT ![t] = pc[t]]
  /\ pc' = [pc EXCEPT ![t] = "create_locked"]
  /\ UNCHANGED <<entity_generator_, aborted, entity_to_blueprint_map_, pending_destroy_,
                 systems_, type_map_, converters_, blueprints_, arg, loaded, pending_destroy, destroy_entity,
                 destroy_ret, hook_idx, history, outputs>>

\* Create(): ++entity_generator_ reads the counter ...
CreateLoad(t) ==
  /\ ~aborted
  /\ pc[t] = "create_locked"
  /\ loaded' = [loaded EXCEPT ![t] = entity_generator_]
  /\ pc' = [pc EXCEPT ![t] = "create_loaded"]
  /\ UNCHANGED <<factory, caller, arg, pending_destroy, destroy_entity, destroy_ret,
                 hook_idx, history, outputs>>

\* ... and writes it back incremented; then the CHECK and the return, which
\* unlocks.  A failed CHECK ends the process where it stands.
CreateReturn(t) ==
  /\ ~aborted
  /\ pc[t] = "create_loaded"
  /\ LET made == Create([Factory EXCEPT !.gen = loaded[t]])
     IN  /\ entity_generator_' = made.st.gen
         /\ aborted' = made.st.aborted
         /\ IF made.st.aborted
            THEN UNCHANGED <<loader_calls, mutex_, pc, caller, loaded, create_log>>
            ELSE /\ Unlock(t)
                 /\ pc' = [pc EXCEPT ![t] = caller[t]]
                 /\ caller' = [caller EXCEPT ![t] = "idle"]
                 /\ loaded' = [loaded EXCEPT ![t] = 0]
                 /\ create_log' = Append(create_log, made.ret)
  /\ UNCHANGED <<loader_calls, entity_to_blueprint_map_, pending_destroy_, systems_, type_map_, converters_, blueprints_,
                 arg, pending_destroy, destroy_entity, destroy_ret, hook_idx,
                 owed, epoch, destroy_calls, destroy_was_live, reg_order, last_def, drain_owes, outputs>>

\* ------------------------------------------ construction, on the owner thread

\* Create(Entity, BlueprintTree*).  The children's Create() calls take the mutex.
CreateInto(entity, blueprint) ==
  /\ ~aborted
  /\ pc[Owner] = "idle"
  /\ mutex_ = Free
  /\ \E out \in Create_Entity_BlueprintTree_Outcomes(Factory, entity, blueprint) :
       Commit(out)
  /\ input' = [op |-> "Create(Entity, BlueprintTree*)", entity |-> entity,
               blueprint |-> blueprint]
  /\ UNCHANGED <<mutex_, pending_destroy_, systems_, type_map_, converters_, blueprints_, control, history>>

\* Create(Blueprint*)
CreateFrom(blueprint) ==
  /\ ~aborted
  /\ pc[Owner] = "idle"
  /\ mutex_ = Free
  /\ LET out == Create_Blueprint(Factory, blueprint)
     IN  /\ Commit(out)
         /\ create_log' = IF out.st.aborted THEN create_log
                          ELSE Append(create_log, out.st.gen)
  /\ input' = [op |-> "Create(Blueprint*)", blueprint |-> blueprint]
  /\ UNCHANGED <<loader_calls, mutex_, pending_destroy_, systems_, type_map_, converters_, blueprints_, control,
                 owed, epoch, destroy_calls, destroy_was_live, reg_order, last_def, drain_owes>>

\* Create(BlueprintTree*): Create() for the parent and for every child
CreateTree(blueprint) ==
  /\ ~aborted
  /\ pc[Owner] = "idle"
  /\ mutex_ = Free
  /\ \E out \in Create_BlueprintTree_Outcomes(Factory, blueprint) :
       LET made == ((out.st.gen - entity_generator_) % EntityModulus)
                     - (IF out.st.gen = kNullEntity THEN 1 ELSE 0)
       IN  /\ Commit(out)
           /\ create_log' = create_log \o [i \in 1 .. made |-> entity_generator_ + i]
  /\ input' = [op |-> "Create(BlueprintTree*)", blueprint |-> blueprint]
  /\ UNCHANGED <<loader_calls, mutex_, pending_destroy_, systems_, type_map_, converters_, blueprints_, control,
                 owed, epoch, destroy_calls, destroy_was_live, reg_order, last_def, drain_owes>>

\* What the loader can return for the name's file at this call: nothing that
\* matters when the cache has the key and the loader is not called.
LoaderReturns(name) ==
  IF Hash(FilenameOf(name)) \in DOMAIN blueprints_ THEN {NullAsset} ELSE LoadedAssets

\* CreateFromBlueprint(blueprint, len, name), on the owner thread.
\* loads: the converter's load function returns a tree.
CreateFromData(data, name, loads) ==
  /\ ~aborted
  /\ pc[Owner] = "idle"
  /\ mutex_ = Free
  /\ entity_generator_ < MaxNamed
  /\ LET out == CreateFromBlueprint(Factory, data, name, loads)
     IN  /\ Commit(out)
         /\ create_log' = IF out.st.aborted THEN create_log
                          ELSE Append(create_log, out.st.gen)
  /\ input' = [op |-> "CreateFromBlueprint", data |-> data, name |-> name]
  /\ UNCHANGED <<loader_calls, mutex_, pending_destroy_, systems_, type_map_, converters_, blueprints_, control,
                 owed, epoch, destroy_calls, destroy_was_live, reg_order, last_def, drain_owes>>

\* Create(name).  loaded_asset: what the loader returns if it is called;
\* loads: the converter's load function returns a tree.
CreateNamed(name, loaded_asset, loads) ==
  /\ ~aborted
  /\ pc[Owner] = "idle"
  /\ mutex_ = Free
  /\ entity_generator_ < MaxNamed
  /\ LET out == Create_Name(Factory, name, loaded_asset, loads)
     IN  /\ CommitNamed(out)
         /\ result' = out.ret
         /\ create_log' = IF out.st.gen = entity_generator_ \/ out.st.aborted
                          THEN create_log
                          ELSE Append(create_log, out.st.gen)
  /\ decoded' = NullOpt
  /\ input' = [op |-> "Create(name)", name |-> name]
  /\ UNCHANGED <<mutex_, pending_destroy_, systems_, type_map_, converters_, control,
                 owed, epoch, destroy_calls, destroy_was_live, reg_order, last_def, drain_owes>>

\* Create(entity, name)
CreateIntoNamed(entity, name, loaded_asset, loads) ==
  /\ ~aborted
  /\ pc[Owner] = "idle"
  /\ mutex_ = Free
  /\ LET out == Create_Entity_Name(Factory, entity, name, loaded_asset, loads)
     IN  /\ CommitNamed(out)
         /\ result' = out.ret
  /\ decoded' = NullOpt
  /\ input' = [op |-> "Create(Entity, name)", entity |-> entity, name |-> name]
  /\ UNCHANGED <<mutex_, pending_destroy_, systems_, type_map_, converters_, control,
                 create_log, owed, epoch, destroy_calls, destroy_was_live, reg_order,
                 last_def, drain_owes>>

\* CreateBlueprint(name)
CreateBlueprintNamed(name, loaded_asset, loads) ==
  /\ ~aborted
  /\ pc[Owner] = "idle"
  /\ LET out == CreateBlueprint(Factory, name, loaded_asset, loads)
     IN  /\ CommitNamed(out)
         /\ decoded' = out.ret
  /\ result' = kNullEntity
  /\ input' = [op |-> "CreateBlueprint(name)", name |-> name]
  /\ UNCHANGED <<mutex_, pending_destroy_, systems_, type_map_, converters_, control,
                 create_log, owed, epoch, destroy_calls, destroy_was_live, reg_order,
                 last_def, drain_owes>>

\* --------------------------------------------------------------- destruction

\* The owner calls Destroy(entity).
DestroyCall(entity) ==
  /\ ~aborted
  /\ pc[Owner] = "idle"
  /\ pc' = [pc EXCEPT ![Owner] = "destroy_entry"]
  /\ destroy_entity' = entity
  /\ destroy_ret' = "idle"
  /\ UNCHANGED <<factory, caller, arg, loaded, pending_destroy, hook_idx, history, outputs>>

\* Destroy leaves: back to its caller, its frame gone.
LeaveDestroy ==
  /\ pc' = [pc EXCEPT ![Owner] = destroy_ret]
  /\ destroy_entity' = kNullEntity
  /\ destroy_ret' = "idle"
  /\ hook_idx' = 0
  /\ destroy_calls' = <<>>
  /\ destroy_was_live' = FALSE

\* Destroy: if (entity == kNullEntity) return; entity_to_blueprint_map_.erase(entity)
DestroyErase ==
  /\ ~aborted
  /\ pc[Owner] = "destroy_entry"
  /\ IF destroy_entity = kNullEntity
     THEN /\ LeaveDestroy
          /\ UNCHANGED entity_to_blueprint_map_
     ELSE /\ entity_to_blueprint_map_' = Erase(entity_to_blueprint_map_, destroy_entity)
          /\ pc' = [pc EXCEPT ![Owner] = "destroy_loop"]
          /\ hook_idx' = 1
          /\ destroy_calls' = <<>>
          /\ destroy_was_live' = (destroy_entity \in DOMAIN entity_to_blueprint_map_)
          /\ UNCHANGED <<destroy_entity, destroy_ret>>
  /\ UNCHANGED <<loader_calls, entity_generator_, aborted, mutex_, pending_destroy_, systems_,
                 type_map_, converters_, blueprints_, caller, arg, loaded, pending_destroy, create_log, owed, epoch,
                 reg_order, last_def, drain_owes, outputs>>

\* What a hook is told and what it can see of its entity: the System, the
\* entity, and whether the entity still has its name-map entry.
HookCall(i) ==
  [type |-> systems_[i].type, system |-> systems_[i].system, entity |-> destroy_entity,
   live |-> destroy_entity \in DOMAIN entity_to_blueprint_map_]

\* for (auto& iter : systems_) iter.second->Destroy(entity): enter the next hook
DestroyLoop ==
  /\ ~aborted
  /\ pc[Owner] = "destroy_loop"
  /\ hook_idx <= Len(systems_)
  /\ destroy_calls' = Append(destroy_calls, HookCall(hook_idx))
  /\ pc' = [pc EXCEPT ![Owner] = "in_hook"]
  /\ UNCHANGED <<loader_calls, factory, caller, arg, loaded, pending_destroy, destroy_entity, destroy_ret,
                 hook_idx, create_log, owed, epoch, destroy_was_live, reg_order,
                 last_def, drain_owes, outputs>>

\* The hook returns.
HookReturn ==
  /\ ~aborted
  /\ pc[Owner] = "in_hook"
  /\ hook_idx' = hook_idx + 1
  /\ pc' = [pc EXCEPT ![Owner] = "destroy_loop"]
  /\ UNCHANGED <<factory, caller, arg, loaded, pending_destroy, destroy_entity, destroy_ret,
                 history, outputs>>

\* The loop is over: Destroy returns.
DestroyReturn ==
  /\ ~aborted
  /\ pc[Owner] = "destroy_loop"
  /\ hook_idx > Len(systems_)
  /\ LeaveDestroy
  /\ UNCHANGED <<loader_calls, factory, caller, arg, loaded, pending_destroy, create_log, owed, epoch,
                 reg_order, last_def, drain_owes, outputs>>

\* Calls of QueueForDestruction with a non-null entity that have not pushed yet.
Queueing == {t \in Threads : pc[t] \in {"queue_entry", "queue_locked"} /\ arg[t] # kNullEntity}

\* A thread calls QueueForDestruction(entity).
QueueCall(t, entity) ==
  /\ ~aborted
  /\ CanCall(t)
  /\ entity # kNullEntity => Len(owed) + Cardinality(Queueing) < MaxQueue
  /\ caller' = [caller EXCEPT ![t] = pc[t]]
  /\ arg' = [arg EXCEPT ![t] = entity]
  /\ pc' = [pc EXCEPT ![t] = "queue_entry"]
  /\ UNCHANGED <<factory, loaded, pending_destroy, destroy_entity, destroy_ret,
                 hook_idx, history, outputs>>

\* Mutant: QueueForDestruction without its null check.
QueueLockAnyEntity(t) ==
  /\ ~aborted
  /\ pc[t] = "queue_entry"
  /\ Lock(t)
  /\ pc' = [pc EXCEPT ![t] = "queue_locked"]
  /\ UNCHANGED <<entity_generator_, aborted, entity_to_blueprint_map_, pending_destroy_,
                 systems_, type_map_, converters_, blueprints_, caller, arg, loaded, pending_destroy,
                 destroy_entity, destroy_ret, hook_idx, history, outputs>>

\* QueueForDestruction: if (entity == kNullEntity) return; Lock lock(mutex_)
QueueLock(t) ==
  /\ ~aborted
  /\ pc[t] = "queue_entry"
  /\ IF arg[t] = kNullEntity
     THEN /\ pc' = [pc EXCEPT ![t] = caller[t]]
          /\ caller' = [caller EXCEPT ![t] = "idle"]
          /\ UNCHANGED <<mutex_, arg>>
     ELSE /\ Lock(t)
          /\ pc' = [pc EXCEPT ![t] = "queue_locked"]
          /\ UNCHANGED <<caller, arg>>
  /\ UNCHANGED <<entity_generator_, aborted, entity_to_blueprint_map_, pending_destroy_,
                 systems_, type_map_, converters_, blueprints_, loaded, pending_destroy, destroy_entity, destroy_ret,
                 hook_idx, history, outputs>>

\* QueueForDestruction: pending_destroy_.push(entity), and the return unlocks
QueuePush(t) ==
  /\ ~aborted
  /\ pc[t] = "queue_locked"
  /\ pending_destroy_' = Append(pending_destroy_, arg[t])
  /\ owed' = Append(owed, [entity |-> arg[t], epoch |-> epoch])
  /\ Unlock(t)
  /\ pc' = [pc EXCEPT ![t] = caller[t]]
  /\ caller' = [caller EXCEPT ![t] = "idle"]
  /\ arg' = [arg EXCEPT ![t] = kNullEntity]
  /\ UNCHANGED <<loader_calls, entity_generator_, aborted, entity_to_blueprint_map_, systems_,
                 type_map_, converters_, blueprints_, loaded, pending_destroy, destroy_entity, destroy_ret,
                 hook_idx, create_log, epoch, destroy_calls, destroy_was_live,
                 reg_order, last_def, drain_owes, outputs>>

\* Mutant: the drain copies the member queue and leaves it as it is.
DrainCopy ==
  /\ ~aborted
  /\ pc[Owner] = "drain_locked"
  /\ pending_destroy' = pending_destroy_
  /\ drain_owes' = Len(pending_destroy_)
  /\ epoch' = 1 - epoch
  /\ Unlock(Owner)
  /\ pc' = [pc EXCEPT ![Owner] = "drain_loop"]
  /\ UNCHANGED <<loader_calls, entity_generator_, aborted, entity_to_blueprint_map_, pending_destroy_,
                 systems_, type_map_, converters_, blueprints_, caller, arg, loaded, destroy_entity, destroy_ret,
                 hook_idx, create_log, owed, destroy_calls, destroy_was_live, reg_order,
                 last_def, outputs>>

\* Mutant: the drain's lock lasts for the whole call, not for the swap's block.
DrainSwapHoldingLock ==
  /\ ~aborted
  /\ pc[Owner] = "drain_locked"
  /\ pending_destroy' = pending_destroy_
  /\ pending_destroy_' = pending_destroy
  /\ drain_owes' = Len(pending_destroy_)
  /\ epoch' = 1 - epoch
  /\ pc' = [pc EXCEPT ![Owner] = "drain_loop"]
  /\ UNCHANGED <<loader_calls, entity_generator_, aborted, mutex_, entity_to_blueprint_map_, systems_,
                 type_map_, converters_, blueprints_, caller, arg, loaded, destroy_entity, destroy_ret, hook_idx,
                 create_log, owed, destroy_calls, destroy_was_live, reg_order, last_def, outputs>>

\* DestroyQueuedEntities: Lock lock(mutex_)
DrainLock ==
  /\ ~aborted
  /\ pc[Owner] = "idle"
  /\ Lock(Owner)
  /\ pc' = [pc EXCEPT ![Owner] = "drain_locked"]
  /\ UNCHANGED <<entity_generator_, aborted, entity_to_blueprint_map_, pending_destroy_,
                 systems_, type_map_, converters_, blueprints_, caller, arg, loaded, pending_destroy, destroy_entity,
                 destroy_ret, hook_idx, history, outputs>>

\* std::swap(pending_destroy_, pending_destroy) with the empty local queue, and
\* the end of the locked block
DrainSwap ==
  /\ ~aborted
  /\ pc[Owner] = "drain_locked"
  /\ pending_destroy' = pending_destroy_
  /\ pending_destroy_' = pending_destroy
  /\ drain_owes' = Len(pending_destroy_)
  /\ epoch' = 1 - epoch
  /\ Unlock(Owner)
  /\ pc' = [pc EXCEPT ![Owner] = "drain_loop"]
  /\ UNCHANGED <<loader_calls, entity_generator_, aborted, entity_to_blueprint_map_, systems_,
                 type_map_, converters_, blueprints_, caller, arg, loaded, destroy_entity, destroy_ret, hook_idx,
                 create_log, owed, destroy_calls, destroy_was_live, reg_order, last_def, outputs>>

\* while (!pending_destroy.empty()) Destroy(pending_destroy.front())
DrainDestroy ==
  /\ ~aborted
  /\ pc[Owner] = "drain_loop"
  /\ pending_destroy # <<>>
  /\ pc' = [pc EXCEPT ![Owner] = "destroy_entry"]
  /\ destroy_entity' = Head(pending_destroy)
  /\ destroy_ret' = "drain_pop"
  /\ owed' = IF owed # <<>> /\ Head(owed).entity = Head(pending_destroy)
             THEN Tail(owed)
             ELSE owed
  /\ drain_owes' = drain_owes - 1
  /\ UNCHANGED <<loader_calls, factory, caller, arg, loaded, pending_destroy, hook_idx, create_log, epoch,
                 destroy_calls, destroy_was_live, reg_order, last_def, outputs>>

\* pending_destroy.pop()
DrainPop ==
  /\ ~aborted
  /\ pc[Owner] = "drain_pop"
  /\ pending_destroy' = Tail(pending_destroy)
  /\ pc' = [pc EXCEPT ![Owner] = "drain_loop"]
  /\ UNCHANGED <<factory, caller, arg, loaded, destroy_entity, destroy_ret, hook_idx,
                 history, outputs>>

\* Mutant: the drain goes on until the member queue is empty too.
DrainUntilEmpty ==
  /\ ~aborted
  /\ pc[Owner] = "drain_loop"
  /\ pending_destroy = <<>>
  /\ IF pending_destroy_ = <<>>
     THEN /\ pc' = [pc EXCEPT ![Owner] = "idle"]
          /\ drain_owes' = 0
          /\ UNCHANGED <<pending_destroy, pending_destroy_>>
     ELSE /\ pending_destroy' = pending_destroy_
          /\ pending_destroy_' = <<>>
          /\ UNCHANGED <<pc, drain_owes>>
  /\ UNCHANGED <<entity_generator_, aborted, mutex_, entity_to_blueprint_map_, systems_,
                 type_map_, converters_, blueprints_, caller, arg, loaded, destroy_entity, destroy_ret, hook_idx,
                 create_log, owed, epoch, destroy_calls, destroy_was_live, reg_order,
                 last_def, loader_calls, outputs>>

\* The local queue is empty: DestroyQueuedEntities returns.
DrainReturn ==
  /\ ~aborted
  /\ pc[Owner] = "drain_loop"
  /\ pending_destroy = <<>>
  /\ pc' = [pc EXCEPT ![Owner] = "idle"]
  /\ drain_owes' = 0
  /\ UNCHANGED <<factory, caller, arg, loaded, pending_destroy, destroy_entity, destroy_ret,
                 hook_idx, create_log, owed, epoch, destroy_calls, destroy_was_live, reg_order,
                 last_def, loader_calls, outputs>>

\* ------------------------------------------------------ the specifications

\* Spec: the factory under concurrent use.  The owner registers a System,
\* destroys and drains; both threads create ids and queue entities.
Next ==
  \/ AddSystem("T1", "sysA")
  \/ \E t \in Threads : CreateLock(t)
  \/ \E t \in Threads : CreateLoad(t)
  \/ \E t \in Threads : CreateReturn(t)
  \/ \E entity \in EntityArgs : DestroyCall(entity)
  \/ DestroyErase
  \/ DestroyLoop
  \/ HookReturn
  \/ DestroyReturn
  \/ \E t \in Threads, entity \in EntityArgs : QueueCall(t, entity)
  \/ \E t \in Threads : QueueLock(t)
  \/ \E t \in Threads : QueuePush(t)
  \/ DrainLock
  \/ DrainSwap
  \/ DrainDestroy
  \/ DrainPop
  \/ DrainReturn

Spec == Init /\ [][Next]_vars

\* SpecDrain: the owner registers a System and drains the queue; the other
\* thread and the hooks the drain runs call QueueForDestruction.
NextDrain ==
  \/ AddSystem("T1", "sysA")
  \/ \E t \in Threads, entity \in EntityArgs : QueueCall(t, entity)
  \/ \E t \in Threads : QueueLock(t)
  \/ \E t \in Threads : QueuePush(t)
  \/ DrainLock
  \/ DrainSwap
  \/ DrainDestroy
  \/ DestroyErase
  \/ DestroyLoop
  \/ HookReturn
  \/ DestroyReturn
  \/ DrainPop
  \/ DrainReturn

\* The owner thread keeps running its drain; a hook returns, whatever calls it
\* makes first; a thread that holds the mutex goes on to release it, and the
\* owner, waiting for the mutex inside a hook, gets it at some release.
DrainFairness ==
  /\ WF_vars(DrainSwap)
  /\ WF_vars(DrainDestroy)
  /\ WF_vars(DestroyErase)
  /\ WF_vars(DestroyLoop)
  /\ WF_vars(DestroyReturn)
  /\ WF_vars(DrainPop)
  /\ WF_vars(DrainReturn)
  /\ SF_vars(HookReturn)
  /\ SF_vars(QueueLock(Owner))
  /\ \A t \in Threads : WF_vars(QueuePush(t))

SpecDrain == Init /\ [][NextDrain]_vars /\ DrainFairness

\* SpecIds: the owner registers converters and creates entities from named
\* assets and from buffers of its own.
NextIds ==
  \/ \E identifier \in {"AAAA", "BBBB"} : CreateFlatbufferConverter(identifier)
  \/ \E name \in Names, loads \in BOOLEAN :
       \E loaded_asset \in LoaderReturns(name) : CreateNamed(name, loaded_asset, loads)
  \/ \E data \in DataBuffers, loads \in BOOLEAN : CreateFromData(data, "box", loads)

SpecIds == Init /\ [][NextIds]_vars

\* The System registered under each type id by the owner of SpecLife.
SystemOf(system_type) == IF system_type = "T1" THEN "sysA" ELSE "sysB"

\* SpecLife: one thread registers Systems, creates ids, constructs entities
\* into ids of its choice and destroys them; hooks may call Create().
NextLife ==
  \/ \E system_type \in SystemTypes : AddSystem(system_type, SystemOf(system_type))
  \/ CreateLock(Owner)
  \/ CreateLoad(Owner)
  \/ CreateReturn(Owner)
  \/ \E entity \in EntityArgs, blueprint \in {NullBlueprint, EmptyBlueprint} :
        CreateInto(entity, blueprint)
  \/ \E entity \in EntityArgs : DestroyCall(entity)
  \/ DestroyErase
  \/ DestroyLoop
  \/ HookReturn
  \/ DestroyReturn

SpecLife == Init /\ [][NextLife]_vars

\* SpecReg: the registration calls.
NextReg ==
  \/ \E system_type \in SystemTypes, system \in SystemPtrs : AddSystem(system_type, system)
  \/ \E system_type \in SystemTypes, def_type \in DefTypes : RegisterDef(system_type, def_type)

SpecReg == Init /\ [][NextReg]_vars

\* Construction from blueprint trees, against every registration of the
\* component types.
NextBuild ==
  \/ \E system_type \in SystemTypes : AddSystem(system_type, SystemOf(system_type))
  \/ \E system_type \in SystemTypes, def_type \in DefTypes : RegisterDef(system_type, def_type)
  \/ \E blueprint \in BuildTrees : CreateTree(blueprint)
  \/ \E blueprint \in {NullBlueprint, Leaf(<<"d1", "d2">>)} : CreateFrom(blueprint)

SpecBuild == Init /\ [][NextBuild]_vars

\* Decoding byte buffers, against every list of registered converters.
NextConv ==
  \/ \E identifier \in ConverterIdentifiers : CreateFlatbufferConverter(identifier)
  \/ \E data \in DataBuffers, loads \in BOOLEAN : DecodeData(data, loads)
  \/ \E encodes \in BOOLEAN : FinalizeCall(encodes)

SpecConv == Init /\ [][NextConv]_vars

\* Requests by blueprint name, against every content of the asset cache.
NextAsset ==
  \/ CreateFlatbufferConverter("AAAA")
  \/ \E name \in Names, loads \in BOOLEAN :
       \E loaded_asset \in LoaderReturns(name) : CreateNamed(name, loaded_asset, loads)
  \/ \E entity \in EntityArgs, name \in Names, loads \in BOOLEAN :
       \E loaded_asset \in LoaderReturns(name) :
         CreateIntoNamed(entity, name, loaded_asset, loads)
  \/ \E name \in Names, loads \in BOOLEAN :
       \E loaded_asset \in LoaderReturns(name) :
         CreateBlueprintNamed(name, loaded_asset, loads)

SpecAsset == Init /\ [][NextAsset]_vars

\* Entities created by name and from blueprints, with and without a System
\* for their components, and destroyed.
NextName ==
  \/ CreateFlatbufferConverter("AAAA")
  \/ AddSystem("T1", "sysA")
  \/ RegisterDef("T1", "d1")
  \/ CreateNamed("box", FileAsset(Buffer("AAAA")), TRUE)
  \/ CreateFrom(Leaf(<<"d1", "d2">>))
  \/ CreateTree(Leaf(<<"d1">>))
  \/ \E entity \in EntityArgs : DestroyCall(entity)
  \/ DestroyErase
  \/ DestroyLoop
  \/ HookReturn
  \/ DestroyReturn

SpecName == Init /\ [][NextName]_vars

\* ------------------------------------------------------------------ claims

\* The entities of a sequence of queue entries.
EntitiesOf(entries) == [i \in 1 .. Len(entries) |-> entries[i].entity]

\* The drain has passed the front of its local queue to Destroy and not popped it.
FrontDestroyed == destroy_ret = "drain_pop" \/ pc[Owner] = "drain_pop"

\* What the running drain has still to destroy.
Undestroyed == IF FrontDestroyed THEN Tail(pending_destroy) ELSE pending_destroy

\* The drain is past its swap.
Draining == pc[Owner] = "drain_loop" \/ FrontDestroyed

\* C1: the ids Create() returns, in the order of the returns (the order in which
\* the callers, on any thread, got the mutex), are strictly increasing and none
\* is the null entity; so no id is returned twice.
C1_CreateIdsIncrease ==
  \A i \in 1 .. Len(create_log) :
    /\ create_log[i] # kNullEntity
    /\ \A j \in 1 .. (i - 1) : create_log[j] < create_log[i]

\* Two ids were returned and the worker is inside Create(), holding the mutex,
\* while the owner runs a System hook.
C1_Witness ==
  /\ Len(create_log) >= 2
  /\ pc[Worker] = "create_loaded"
  /\ pc[Owner] = "in_hook"
  /\ ~aborted

\* C2: the entries that were enqueued and that no drain has passed to Destroy
\* yet are, in enqueue order, exactly what the running drain has left in its
\* local queue followed by the member queue; DrainDestroy takes an entry off
\* that record only when it is the oldest one.  So every enqueued entry is
\* destroyed once, in enqueue order, and none is lost or destroyed twice.
C2_DrainExactlyOnceFifo ==
  EntitiesOf(owed) = Undestroyed \o pending_destroy_

\* A drain has destroyed one of two entries while a thread enqueues another.
C2_Witness ==
  /\ pc[Owner] = "drain_pop"
  /\ Len(pending_destroy) = 2
  /\ pc[Worker] = "queue_locked"

\* C3: the entries enqueued since the last swap (their epoch is the current
\* one) are exactly the member queue, in order, and what the running drain
\* destroys are exactly the entries enqueued before its swap: an entry
\* enqueued during a drain waits in pending_destroy_ for the next swap.
EnqueuedSinceSwap(entry) == entry.epoch = epoch
EnqueuedBeforeSwap(entry) == entry.epoch # epoch
C3_LateEntriesWaitForNextDrain ==
  /\ EntitiesOf(SelectSeq(owed, EnqueuedSinceSwap)) = pending_destroy_
  /\ EntitiesOf(SelectSeq(owed, EnqueuedBeforeSwap)) = Undestroyed

\* A drain that has destroyed everything it swapped out, a System hook having
\* run, finds an entry in the member queue and returns.
C3_Witness ==
  /\ pc[Owner] = "drain_loop"
  /\ pending_destroy = <<>>
  /\ pending_destroy_ # <<>>
  /\ systems_ # <<>>

\* C10: the null entity is never queued and never destroyed: a Destroy(0) and a
\* QueueForDestruction(0) return from their first line with the factory as it
\* was, no queue holds the null entity, and no loop over the Systems runs for it.
NullDestroyStep == pc[Owner] = "destroy_entry" /\ destroy_entity = kNullEntity /\ DestroyErase
NullQueueStep(t) == pc[t] = "queue_entry" /\ arg[t] = kNullEntity /\ QueueLock(t)
NoNullQueuedOrDestroyed ==
  /\ kNullEntity \notin Range(pending_destroy_)
  /\ kNullEntity \notin Range(pending_destroy)
  /\ \A i \in 1 .. Len(destroy_calls) : destroy_calls[i].entity # kNullEntity
  /\ pc[Owner] \in {"destroy_loop", "in_hook"} => destroy_entity # kNullEntity
C10_NullEntityIgnored ==
  [][ /\ NullDestroyStep =>
           /\ UNCHANGED <<loader_calls, factory, pending_destroy, destroy_calls>>
           /\ pc'[Owner] = destroy_ret
      /\ \A t \in Threads : NullQueueStep(t) =>
           /\ UNCHANGED <<loader_calls, factory, pending_destroy, destroy_calls>>
           /\ pc'[t] = caller[t]
      /\ NoNullQueuedOrDestroyed' ]_vars

\* Destroy(0) and QueueForDestruction(0) are both at their null check while the
\* member queue holds an entry and a System is registered.
C10_Witness ==
  /\ pc[Owner] = "destroy_entry"
  /\ destroy_entity = kNullEntity
  /\ pc[Worker] = "queue_entry"
  /\ arg[Worker] = kNullEntity
  /\ pending_destroy_ # <<>>
  /\ systems_ # <<>>

\* C5 (as claimed): the id a Create() returns is not live when it is returned.
\* create_log grows exactly when a Create() returns.
C5_CreateNeverReturnsLiveId ==
  [][ create_log' # create_log =>
        create_log'[Len(create_log')] \notin DOMAIN entity_to_blueprint_map_ ]_vars

\* Destroy's loop over systems_ is over.
DestroyLoopOver == pc[Owner] = "destroy_loop" /\ hook_idx > Len(systems_)

\* The system-type ids of the hooks the current Destroy has called, in call order.
CalledTypes == [i \in 1 .. Len(destroy_calls) |-> destroy_calls[i].type]

\* C8 (amended): Destroy(e), e not null, erases e's name-map entry before any
\* hook runs (no hook sees the entry) and calls the Destroy hook of every
\* registered System once with e, in the iteration order of systems_, whether
\* or not the System ever created a component of e.
C8_DestroyErasesThenCallsEverySystem ==
  /\ \A i \in 1 .. Len(destroy_calls) :
       /\ ~destroy_calls[i].live
       /\ destroy_calls[i].entity = destroy_entity
       /\ destroy_calls[i].type = systems_[i].type
  /\ DestroyLoopOver =>
       /\ Len(destroy_calls) = Len(reg_order)
       /\ Range(CalledTypes) = Range(RegisteredTypes)

\* C8 (as claimed): the hooks are called in the order the Systems were registered.
C8_HooksInRegistrationOrder ==
  DestroyLoopOver => CalledTypes = RegisteredTypes

\* Destroy of a live entity has called the hooks of two Systems.
C8_Witness ==
  /\ DestroyLoopOver
  /\ Len(destroy_calls) = 2
  /\ destroy_was_live

\* C9: Destroy(e) of a non-null e that has no name-map entry (never created,
\* or destroyed before) changes nothing of the factory: every step Destroy takes
\* leaves the name map, the counter, the member queue and the registries as
\* they were.
DestroyStep == DestroyErase \/ DestroyLoop \/ HookReturn \/ DestroyReturn
AbsentAtCall ==
  IF pc[Owner] = "destroy_entry"
  THEN destroy_entity \notin DOMAIN entity_to_blueprint_map_
  ELSE ~destroy_was_live
C9_DestroyOfAbsentEntityChangesNothing ==
  [][ (DestroyStep /\ destroy_entity # kNullEntity /\ AbsentAtCall) =>
        UNCHANGED <<entity_generator_, entity_to_blueprint_map_, pending_destroy_,
                    systems_, type_map_>> ]_vars

\* Destroy of an entity without an entry has run the hooks of two Systems while
\* other entities are live.
C9_Witness ==
  /\ DestroyLoopOver
  /\ Len(destroy_calls) = 2
  /\ ~destroy_was_live
  /\ DOMAIN entity_to_blueprint_map_ # {}
  /\ entity_generator_ > 0

\* C7: the System registered for a type id is the one of the first AddSystem
\* call for that id that passed a System (later calls and calls with a null
\* System change nothing), and the type id a component-type hash maps to is the
\* one of the last RegisterDef call for that hash.
C7_FirstSystemLastDef ==
  /\ Len(systems_) = Len(reg_order)
  /\ \A i \in 1 .. Len(reg_order) :
       /\ FindSystem(reg_order[i].type) # 0
       /\ systems_[FindSystem(reg_order[i].type)].system = reg_order[i].system
  /\ \A i \in 1 .. Len(systems_) : systems_[i].system # NullSystem
  /\ type_map_ = last_def

\* Both type ids have a System, the second registered is not the one of T1's
\* type, and a hash was registered for T2 (after T1, or first).
C7_Witness ==
  /\ Len(reg_order) = 2
  /\ reg_order[1].system = reg_order[2].system
  /\ DOMAIN type_map_ = DefTypes
  /\ type_map_["d1"] # type_map_["d2"]

\* The entities of a blueprint tree: its root and those of its children.
RECURSIVE Size(_)
RECURSIVE SizeOfAll(_)
Size(blueprint) == 1 + SizeOfAll(blueprint.children)
SizeOfAll(children) ==
  IF children = <<>> THEN 0 ELSE Size(Head(children)) + SizeOfAll(Tail(children))

\* The last call built an entity from a blueprint tree, under a fresh id.
BuiltFromTree ==
  /\ input.op = "Create(BlueprintTree*)"
  /\ result # kNullEntity
  /\ ~aborted

\* The first entity id of the k-th child's subtree; the children's ids follow
\* the parent's.
ChildStart(k) == result + 1 + SizeOfAll(SubSeq(input.blueprint.children, 1, k - 1))
\* Which child's subtree an entity belongs to; 0 when to none.
ChildOf(entity) ==
  LET owners == {k \in DOMAIN input.blueprint.children :
                   ChildStart(k) <= entity /\ entity < ChildStart(k + 1)}
  IN  IF owners = {} THEN 0 ELSE CHOOSE k \in owners : TRUE

ParentCreate(i) == calls[i].entity = result /\ calls[i].op = "CreateComponent"
ParentPostCreate(i) == calls[i].entity = result /\ calls[i].op = "PostCreateComponent"
ChildCall(i) == calls[i].entity # result

\* C4: when an entity is built from a blueprint tree, its System calls are: the
\* parent's CreateComponent calls, then every call of child 1's subtree, then
\* every call of child 2's, ..., then the parent's PostCreateComponent calls.
C4_ConstructionOrder ==
  BuiltFromTree =>
    /\ \A i, j \in DOMAIN calls : ParentCreate(i) /\ ChildCall(j) => i < j
    /\ \A i, j \in DOMAIN calls : ChildCall(i) /\ ParentPostCreate(j) => i < j
    /\ \A i, j \in DOMAIN calls : ParentCreate(i) /\ ParentPostCreate(j) => i < j
    /\ \A i \in DOMAIN calls : ChildCall(i) => ChildOf(calls[i].entity) # 0
    /\ \A i, j \in DOMAIN calls :
         ChildCall(i) /\ ChildCall(j) /\ i < j
           => ChildOf(calls[i].entity) <= ChildOf(calls[j].entity)

\* The nested tree built with every component resolved: parent, two children
\* and a grandchild all made their calls.
C4_Witness ==
  /\ BuiltFromTree
  /\ input.blueprint = Nested
  /\ Len(calls) = 10
  /\ \E i, j \in DOMAIN calls : ChildOf(calls[i].entity) = 1 /\ ChildOf(calls[j].entity) = 2

\* The last call decoded a non-null buffer.
Decoding == input.op = "CreateBlueprintFromData" /\ ~input.data.null
Matching == {i \in DOMAIN converters_ : converters_[i].identifier = input.data.identifier}
Fatal == \E d \in diag : d[1] = "DFATAL"

\* C6: with one converter registered it decodes every buffer; with two or more,
\* a converter with the buffer's identifier decodes it, whatever was registered
\* first, and a buffer that matches none gives an absent result and a fatal
\* diagnostic.
C6_ConverterResolution ==
  Decoding =>
    /\ Len(converters_) = 1 => decoded.converter = 1
    /\ Len(converters_) >= 2 /\ Matching # {} => decoded.converter \in Matching
    /\ Len(converters_) >= 2 /\ Matching = {} => decoded = NullOpt /\ Fatal

\* Two converters, and the buffer carries the identifier of the second only.
C6_Witness ==
  /\ Decoding
  /\ Len(converters_) >= 2
  /\ decoded.present
  /\ decoded.converter = 2
  /\ 1 \notin Matching

\* A creation call that is given the null entity or a null blueprint.
NullCreationStep ==
  \/ \E entity \in EntityArgs, blueprint \in BuildTrees \cup {EmptyBlueprint} :
       /\ entity = kNullEntity \/ blueprint.null
       /\ CreateInto(entity, blueprint)
  \/ CreateFrom(NullBlueprint)
  \/ CreateTree(NullBlueprint)

\* C11 (as claimed): a creation call given the null entity or a null blueprint
\* returns the null entity, calls no System, and leaves the name map and the
\* entity counter as they were.
C11_NullCreationHasNoSideEffects ==
  [][ NullCreationStep =>
        /\ result' = kNullEntity
        /\ calls' = <<>>
        /\ UNCHANGED <<entity_to_blueprint_map_, entity_generator_>> ]_vars

\* The cache key of a blueprint name.
KeyOf(name) == Hash(FilenameOf(name))
\* The steps that request a name.  Every call of the owner writes input, so in
\* a behaviour of owner calls a step that changes a variable is the call that
\* input names after it.
NamedRequests == {"Create(name)", "Create(Entity, name)", "CreateBlueprint(name)"}
CreateNamedStep(name) == input'.op = "Create(name)" /\ input'.name = name
RequestStep(name) == input'.op \in NamedRequests /\ input'.name = name
\* After the step the cache holds an asset of size 0 for the name.
EmptyAfter(name) ==
  KeyOf(name) \in DOMAIN blueprints_' /\ blueprints_'[KeyOf(name)].empty

\* C12: Create(name) for a name whose asset has no bytes returns the null
\* entity and adds no entry to the name map (nor takes an id from the counter).
C12_NoAssetNoEntity ==
  [][ \A name \in Names :
        (CreateNamedStep(name) /\ (asset'.null \/ EmptyAfter(name))) =>
          /\ result' = kNullEntity
          /\ UNCHANGED <<entity_to_blueprint_map_, entity_generator_>> ]_vars

\* Create(name) found no bytes for the name while another entity is live.
C12_Witness ==
  /\ input.op = "Create(name)"
  /\ asset.null
  /\ result = kNullEntity
  /\ <<"ERROR", 93>> \in diag
  /\ DOMAIN entity_to_blueprint_map_ # {}

\* The cache holds an asset with bytes for the name.
Cached(name) ==
  KeyOf(name) \in DOMAIN blueprints_ /\ ~blueprints_[KeyOf(name)].empty

\* C13: the loader is called once for the file of a name whose asset has bytes,
\* by the first request; every later request returns the cached asset and
\* leaves the cache and the loader alone.
C13_LoaderCalledOnce ==
  [][ \A name \in Names :
        /\ Cached(name) => loader_calls[FilenameOf(name)] = 1
        /\ (RequestStep(name) /\ Cached(name)) =>
             /\ asset' = blueprints_[KeyOf(name)]
             /\ UNCHANGED <<blueprints_, loader_calls>>
        /\ (RequestStep(name) /\ ~Cached(name) /\ ~asset'.null) =>
             /\ loader_calls[FilenameOf(name)] = 0
             /\ loader_calls'[FilenameOf(name)] = 1
             /\ KeyOf(name) \in DOMAIN blueprints_'
             /\ blueprints_'[KeyOf(name)] = asset' ]_vars

\* A request for a name was served from the cache after two entities were
\* created from the name with one call of the loader.
C13_Witness ==
  /\ input.op \in NamedRequests
  /\ served = "cache"
  /\ ~asset.null
  /\ loader_calls[FilenameOf(input.name)] = 1
  /\ \E e1, e2 \in DOMAIN entity_to_blueprint_map_ :
       /\ e1 # e2
       /\ entity_to_blueprint_map_[e1] = input.name
       /\ entity_to_blueprint_map_[e2] = input.name

\* The loader was called for the name's file and the cache holds no bytes for it.
Missed(name) == loader_calls[FilenameOf(name)] > 0 /\ ~Cached(name)

Resolved(def_type) == GetSystem(def_type) # NullSystem
ResolvedOf(comps) == SelectSeq(comps, Resolved)

\* The calls of one kind made for an entity, as <<System, component type>>.
CallsOf(entity, op) ==
  LET Mine(call) == call.entity = entity /\ call.op = op
      mine == SelectSeq(calls, Mine)
  IN  [i \in DOMAIN mine |-> <<mine[i].system, mine[i].def>>]
\* The calls a pass over the components makes when it skips the unresolved ones.
Expected(comps) ==
  [i \in DOMAIN ResolvedOf(comps) |->
     <<GetSystem(ResolvedOf(comps)[i]), ResolvedOf(comps)[i]>>]

\* The last call built an entity from a blueprint that is not null.
Built ==
  /\ input.op \in {"Create(BlueprintTree*)", "Create(Blueprint*)"}
  /\ ~input.blueprint.null
  /\ ~aborted

\* C15: a component without a System does not stop the construction: the call
\* returns the entity, every component with a System got its CreateComponent,
\* every child was built, and no call undoes a component.
C15_UnresolvedDoesNotAbort ==
  Built =>
    /\ result # kNullEntity
    /\ CallsOf(result, "CreateComponent") = Expected(input.blueprint.comps)
    /\ (\E i \in DOMAIN input.blueprint.comps : ~Resolved(input.blueprint.comps[i]))
         => <<"DFATAL", 206>> \in diag
    /\ \A i \in DOMAIN calls : calls[i].op \in {"CreateComponent", "PostCreateComponent"}
    /\ input.op = "Create(BlueprintTree*)" =>
         /\ entity_generator_ = result + SizeOfAll(input.blueprint.children)
         /\ \A k \in DOMAIN input.blueprint.children :
              CallsOf(ChildStart(k), "CreateComponent")
                = Expected(input.blueprint.children[k].comps)

\* A parent whose first component has no System and whose second has one was
\* built with its children.
C15_Witness ==
  /\ Built
  /\ input.blueprint = Family
  /\ ~Resolved("d1")
  /\ Resolved("d2")
  /\ <<"DFATAL", 206>> \in diag
  /\ result # kNullEntity
  /\ CallsOf(result, "CreateComponent") # <<>>
  /\ CallsOf(ChildStart(2), "CreateComponent") # <<>>

\* C20: in one construction the PostCreateComponent calls of the entity are
\* those of its CreateComponent calls: the top-level components with a System,
\* once each, on the same System and in source order; a component without a
\* System gets neither call.
C20_PostCreateMatchesCreate ==
  Built =>
    /\ CallsOf(result, "PostCreateComponent") = CallsOf(result, "CreateComponent")
    /\ CallsOf(result, "PostCreateComponent") = Expected(input.blueprint.comps)
    /\ \A i \in DOMAIN calls :
         calls[i].entity = result =>
           /\ calls[i].system # NullSystem
           /\ calls[i].system = GetSystem(calls[i].def)

\* A parent with two components on two different Systems got a post-creation
\* call for each, after its children were built.
C20_Witness ==
  /\ Built
  /\ input.blueprint = Family
  /\ Len(CallsOf(result, "PostCreateComponent")) = 2
  /\ GetSystem("d1") # GetSystem("d2")
  /\ \E i \in DOMAIN calls : calls[i].entity # result

\* A step in which the owner made one whole call: input names the call.
OwnerCall == pc[Owner] = "idle" /\ pc'[Owner] = "idle"
CreationCalls ==
  {"Create(name)", "Create(Entity, name)", "Create(Blueprint*)", "Create(BlueprintTree*)",
   "Create(Entity, BlueprintTree*)"}
\* The name the call was given: none for a Blueprint or a BlueprintTree.
NameGiven ==
  IF input'.op \in {"Create(name)", "Create(Entity, name)"} THEN input'.name ELSE ""

\* C16: after a creation call that returns an entity, the name map holds the
\* entity, under the name the call was given or under "" when it was given a
\* Blueprint or a BlueprintTree, whether or not every component resolved; and
\* only Destroy(e) takes the entry of e out of the map.
C16_CreatedEntityIsNamed ==
  [][ /\ (OwnerCall /\ input'.op \in CreationCalls /\ result' # kNullEntity /\ ~aborted') =>
           /\ result' \in DOMAIN entity_to_blueprint_map_'
           /\ entity_to_blueprint_map_'[result'] = NameGiven
      /\ \A entity \in DOMAIN entity_to_blueprint_map_ :
           entity \notin DOMAIN entity_to_blueprint_map_' =>
             pc[Owner] = "destroy_entry" /\ destroy_entity = entity ]_vars

\* An entity was created by name with a component that has no System, while an
\* entity made from a Blueprint is in the map under "".
C16_Witness ==
  /\ input.op = "Create(name)"
  /\ result # kNullEntity
  /\ result \in DOMAIN entity_to_blueprint_map_
  /\ entity_to_blueprint_map_[result] = input.name
  /\ <<"DFATAL", 206>> \in diag
  /\ \E entity \in DOMAIN entity_to_blueprint_map_ : entity_to_blueprint_map_[entity] = ""

\* The last call was CreateBlueprintFromData.
FromData == input.op = "CreateBlueprintFromData"

\* C17 (as claimed): CreateBlueprintFromData returns an absent result with a
\* fatal diagnostic for a null buffer, with a diagnostic and no fatal one when
\* no converter is registered, and with a fatal diagnostic when two or more
\* converters are registered and none has the buffer's identifier.
C17_FailureSeverities ==
  FromData =>
    /\ input.data.null => decoded = NullOpt /\ Fatal
    /\ (~input.data.null /\ converters_ = <<>>) =>
         decoded = NullOpt /\ diag # {} /\ ~Fatal
    /\ (~input.data.null /\ Len(converters_) >= 2 /\ Matching = {}) =>
         decoded = NullOpt /\ Fatal

\* C18 (as claimed): Finalize encodes with the one converter when exactly one
\* is registered, and otherwise returns an empty span with a fatal diagnostic.
C18_FinalizeNeedsOneConverter ==
  input.op = "Finalize" =>
    /\ Len(converters_) = 1 => finalized.converter = 1
    /\ Len(converters_) # 1 => finalized = EmptySpan /\ Fatal

\* Where a thread stands between a Lock lock(mutex_) and the end of its scope:
\* Create()'s increment, QueueForDestruction's push, the drain's swap.
LockedSections == {"create_locked", "create_loaded", "queue_locked", "drain_locked"}

\* A System's destroy hook called by DestroyQueuedEntities has not returned.
DrainHookRuns ==
  /\ destroy_ret = "drain_pop"
  /\ pc[Owner] = "in_hook" \/ caller[Owner] = "in_hook"

\* The thread waits for the mutex.
WaitsForMutex(t) == pc[t] = "queue_entry" /\ arg[t] # kNullEntity /\ mutex_ # Free

\* The step that ends the locked section a thread is in can be taken.
CanLeaveSection(t) ==
  ENABLED (CreateLoad(t) \/ CreateReturn(t) \/ QueuePush(t) \/ (t = Owner /\ DrainSwap))

\* C19 (as claimed): in every state in which a System's destroy hook is
\* executing inside DestroyQueuedEntities, the mutex is free.
C19_MutexFreeWhileDrainHookRuns ==
  (destroy_ret = "drain_pop" /\ pc[Owner] = "in_hook") => mutex_ = Free

\* C19 (amended): a thread holds the mutex exactly while it is in Create()'s
\* increment, QueueForDestruction's push or the drain's swap, so the drain
\* never holds it while a hook runs; a holder can always go on to release it,
\* and a thread that waits for the mutex waits for another thread that is in
\* such a section, so no deadlock state is reachable.
C19_MutexHeldOnlyInShortSections ==
  ~aborted =>
    /\ \A t \in Threads : mutex_ = t <=> pc[t] \in LockedSections
    /\ \A t \in Threads : mutex_ = t => CanLeaveSection(t)
    /\ \A t \in Threads : WaitsForMutex(t) => mutex_ \in Threads \ {t}
    /\ DrainHookRuns /\ mutex_ = Owner => caller[Owner] = "in_hook"

\* A hook called by the drain calls Create(), which holds the mutex for its
\* increment, while the other thread waits to push onto the queue.
C19_Witness ==
  /\ DrainHookRuns
  /\ caller[Owner] = "in_hook"
  /\ pc[Owner] = "create_loaded"
  /\ mutex_ = Owner
  /\ \E t \in Threads \ {Owner} : WaitsForMutex(t)

\* The largest value of the entity counter.
MaxEntityValue == EntityModulus - 1

\* A thread inside Create() writes back the counter it read at its maximum.
OverflowStep ==
  \E t \in Threads :
    /\ pc[t] = "create_loaded"
    /\ loaded[t] = MaxEntityValue
    /\ entity_generator_' # entity_generator_

\* C21: a Create() that increments the counter from its maximum value wraps
\* it to 0 and fails fatally: the call does not return (its thread stays
\* where it is and no id is added to the ids returned), and once the process
\* has failed no id is returned any more, so neither the null entity nor an
\* id handed out before is ever returned.
C21_OverflowIsFatal ==
  [][ /\ OverflowStep =>
           /\ entity_generator_' = kNullEntity
           /\ aborted'
           /\ pc' = pc
           /\ create_log' = create_log
      /\ aborted => create_log' = create_log ]_vars

\* Every id but 0 was returned once and the next Create() failed its CHECK.
C21_Witness ==
  /\ aborted
  /\ entity_generator_ = kNullEntity
  /\ create_log = [i \in 1 .. MaxEntityValue |-> i]
  /\ \E t \in Threads : pc[t] = "create_loaded" /\ loaded[t] = MaxEntityValue

\* DestroyQueuedEntities returns.
DrainReturnStep == pc[Owner] = "drain_loop" /\ pc'[Owner] = "idle"

\* No entry that is still to be destroyed was enqueued since the last swap.
NoneEnqueuedSinceSwap == SelectSeq(owed, EnqueuedSinceSwap) = <<>>

\* C22: a DestroyQueuedEntities call that has locked the mutex returns, while
\* hooks and the other thread call QueueForDestruction; at any moment of the
\* call, the entries its swap took less the Destroy calls it has made are the
\* entries left in its local queue, and it returns when that number is 0, so
\* it makes exactly as many Destroy calls as the swap took entries; and if
\* nothing was enqueued since the swap, the member queue is empty at the return.
C22_DrainTerminates ==
  /\ (pc[Owner] = "drain_locked") ~> (pc[Owner] = "idle")
  /\ [](Draining => drain_owes = Len(Undestroyed))
  /\ [][DrainReturnStep =>
          /\ drain_owes = 0
          /\ NoneEnqueuedSinceSwap => pending_destroy_' = <<>>]_vars

\* A hook run by the drain for its last entry has called QueueForDestruction
\* with the entity being destroyed, and the other thread has enqueued an
\* entry since the swap.
C22_Witness ==
  /\ destroy_ret = "drain_pop"
  /\ caller[Owner] = "in_hook"
  /\ pc[Owner] = "queue_locked"
  /\ arg[Owner] = destroy_entity
  /\ drain_owes = 0
  /\ pending_destroy_ # <<>>

\* No registered converter resolves the buffer: there is not exactly one
\* converter, and none has the buffer's identifier.
NoConverterFor(data) ==
  /\ Len(converters_) # 1
  /\ \A i \in DOMAIN converters_ : converters_[i].identifier # data.identifier

\* The step is a Create(name) that finds no asset.
MissingAssetStep == input'.op = "Create(name)" /\ asset'.null

\* The step is a Create(name) or a CreateFromBlueprint(data, len, name) whose
\* buffer no converter resolves.
DecodeFailsStep ==
  \/ input'.op = "Create(name)" /\ ~asset'.null /\ NoConverterFor(asset'.data)
  \/ input'.op = "CreateFromBlueprint" /\ ~input'.data.null /\ NoConverterFor(input'.data)

\* The id the step's Create() allocated is greater than every id allocated before.
AllocatesFreshId ==
  /\ create_log' = Append(create_log, entity_generator_')
  /\ \A i \in 1 .. Len(create_log) : create_log[i] < entity_generator_'

\* C23: a Create(name) that finds no asset returns the null entity and leaves
\* the counter as it was; a creation that fails at decoding returns the null
\* entity and leaves the name map as it was, but has advanced the counter by
\* one; and every id a creation allocates, returned or not, is greater than
\* all ids allocated before, so a discarded id is never returned later.
C23_FailedCreationsAndIds ==
  [][ /\ MissingAssetStep =>
           /\ result' = kNullEntity
           /\ entity_generator_' = entity_generator_
           /\ create_log' = create_log
      /\ DecodeFailsStep =>
           /\ result' = kNullEntity
           /\ entity_to_blueprint_map_' = entity_to_blueprint_map_
           /\ entity_generator_' = entity_generator_ + 1
           /\ AllocatesFreshId
      /\ result' # kNullEntity => result' = entity_generator_' /\ AllocatesFreshId ]_vars

\* With two converters registered and entity 1 created, a creation from a
\* buffer that neither converter resolves has failed and used up id 2.
C23_Witness ==
  /\ input.op = "CreateFromBlueprint"
  /\ ~input.data.null
  /\ NoConverterFor(input.data)
  /\ Len(converters_) >= 2
  /\ result = kNullEntity
  /\ create_log = <<1, 2>>
  /\ entity_generator_ = 2
  /\ DOMAIN entity_to_blueprint_map_ = {1}

====
